---- MODULE Spec2Model ----
(***************************************************************************)
(* Model of fabricclientaio.FabricClient: the cached access token and its  *)
(* lock (_get_token), get, get_paged and get_long_running_job.             *)
(*                                                                         *)
(* Spec      concurrent _get_token() tasks on two client instances         *)
(* HttpSpec  one call chain, get_paged or get_long_running_job, against a  *)
(*           server that answers each request in every way the wire allows *)
(***************************************************************************)
EXTENDS Naturals, Sequences, FiniteSets, TLC

\* ------------------------------------------------------------------ bounds
\* concurrent _get_token() tasks
NumCallers == 4
\* the clock (get_current_unix_timestamp) runs over 0..MaxTime
MaxTime == 3
\* requests one get_paged iteration may issue
MaxPages == 3
\* poll requests one get_long_running_job call may issue
MaxPolls == 2

\* ------------------------------------------------------------------ values
\* two FabricClient instances, each constructed with its own token provider
Clients == {"A", "B"}
\* the concurrent tasks of Spec
Callers == 1..NumCallers
\* the task running the call chain of HttpSpec
Chain == 0
Tasks == {Chain} \cup Callers
\* the lifetimes the providers give a token: one issued at t expires at t + ttl
TTLs == {1, 2}
\* Python's None, where a string is expected
None == "None"
\* Python's None, where an AccessToken is expected
NoToken == [token |-> None, expires_on |-> 0]
\* Python's None, where a dict is expected; a dict is the set of its (key, value) pairs
NoDict == {<<>>}

VARIABLES
    now,        \* get_current_unix_timestamp()
    token,      \* token[cl]: the instance's _token, None or an AccessToken
    locked,     \* FabricClient._lock (one asyncio.Lock, a class attribute): _locked
    waiters,    \* FabricClient._lock: the FIFO of tasks suspended in acquire()
    pc,         \* pc[c]: where task c is inside _get_token
    client,     \* client[c]: the instance task c called _get_token on
    ret,        \* ret[c]: what _get_token returned to task c
    issued,     \* issued[cl]: what the provider of cl answered, in order
    hist,       \* hist[c]: what task c saw (observation only)
    mode,       \* the method the call chain runs
    args,       \* its arguments: url, params, headers (the caller's objects)
    hpc,        \* where the call chain is
    url,        \* local `url` of get_paged / get_long_running_job / get
    params,     \* local `params`
    headers,    \* local `headers` of get / get_long_running_job
    data,       \* get_paged: the page it last yielded
    retry_after,\* get_long_running_job: local `retry_after`
    location,   \* get_long_running_job: local `location`
    session,    \* aiohttp.ClientSession objects that are open
    out,        \* how the call ended: returned a value, or raised
    log,        \* what the chain did, in order: token lookups, requests, sleeps
    served,     \* the responses the server gave, in request order
    yielded,    \* get_paged: the pages delivered to the consumer, in order
    pulls,      \* get_paged: how many times the consumer asked for a page
    buffer,     \* get_items: what `for item in items.value` has still to yield
    emitted     \* get_items: the items delivered to its consumer, in order

tokenVars == <<now, token, locked, waiters, pc, client, ret, issued, hist>>

httpVars == <<mode, args, hpc, url, params, headers, data, retry_after, location,
              session, out, log, served, yielded, pulls>>

itemVars == <<buffer, emitted>>

vars == <<tokenVars, httpVars, itemVars>>

\* --------------------------------------------------------------- _get_token
\* an azure.core.credentials.AccessToken
AccessToken(t, e) == [token |-> t, expires_on |-> e]

\* fabricclient.py:67, the right operand of `or`
ExpiredAlways(tok, t) == TRUE
Expired(tok, t) == tok.expires_on < t

\* fabricclient.py:67, the whole condition
NeedsRefresh(tok, t) == tok = NoToken \/ Expired(tok, t)

\* asyncio.Lock.acquire() returns without suspending
LockIgnored == TRUE
LockFree == ~locked /\ waiters = <<>>

\* provider calls of instance cl that were started (answered or in flight)
InFlight(cl) == {c \in Tasks : pc[c] = "refreshing" /\ client[c] = cl}
ProviderCalls(cl) == Len(issued[cl]) + Cardinality(InFlight(cl))

NoHist == [stale |-> FALSE, lapsed |-> FALSE, gen |-> 0, tok |-> NoToken,
           calls |-> 0, waited |-> FALSE, refreshed |-> FALSE, overlap |-> FALSE]

\* what task c finds when it calls _get_token on cl:
\*   stale     the cache is empty or the expiry instant is reached (now >= expires_on)
\*   lapsed    the cache is empty or the expiry instant is past (now > expires_on)
\*   gen       how many provider calls of cl have been answered
\*   tok       the cached AccessToken
\*   calls     how many provider calls of cl have been started
\*   waited    the task found the lock taken and queued
\*   refreshed the task called the provider
\*   overlap   the task evaluated line 67 while a provider call of cl was in flight
Observe(cl, w) == [stale |-> (token[cl] = NoToken \/ now >= token[cl].expires_on),
                   lapsed |-> (token[cl] = NoToken \/ now > token[cl].expires_on),
                   gen |-> Len(issued[cl]),
                   tok |-> token[cl],
                   calls |-> ProviderCalls(cl),
                   waited |-> w,
                   refreshed |-> FALSE,
                   overlap |-> FALSE]

\* the body of `async with self._lock:` up to its first suspension, run by
\* task c holding the lock: lines 67-69
Enter(c, cl, h) ==
    IF NeedsRefresh(token[cl], now)
    THEN /\ pc' = [pc EXCEPT ![c] = "refreshing"]
         /\ locked' = TRUE
         /\ hist' = [hist EXCEPT ![c] = [h EXCEPT !.refreshed = TRUE,
                                           !.overlap = (InFlight(cl) # {})]]
         /\ UNCHANGED <<token, ret>>
    ELSE /\ pc' = [pc EXCEPT ![c] = "done"]
         /\ ret' = [ret EXCEPT ![c] = token[cl].token]
         /\ locked' = FALSE
         /\ hist' = [hist EXCEPT ![c] = [h EXCEPT !.overlap = (InFlight(cl) # {})]]
         /\ UNCHANGED token

\* task c may call _get_token: the tasks of Spec each call once and are
\* numbered in call order, the chain calls once per request
CanCall(c) ==
    \/ c = Chain /\ pc[c] \in {"idle", "done"}
    \/ c # Chain /\ pc[c] = "idle" /\ \A d \in Callers : d < c => pc[d] # "idle"

\* task c calls cl._get_token(): line 66, then 67-69 when the lock is free
Call(c, cl) ==
    /\ CanCall(c)
    /\ client' = [client EXCEPT ![c] = cl]
    /\ IF LockFree
       THEN /\ Enter(c, cl, Observe(cl, FALSE))
            /\ UNCHANGED waiters
       ELSE /\ waiters' = Append(waiters, c)
            /\ pc' = [pc EXCEPT ![c] = "waiting"]
            /\ hist' = [hist EXCEPT ![c] = Observe(cl, TRUE)]
            /\ UNCHANGED <<token, ret, locked>>
    /\ UNCHANGED <<now, issued>>

\* the lock was released and task c, first in the queue, resumes in acquire()
Resume(c) ==
    /\ pc[c] = "waiting"
    /\ ~locked
    /\ waiters # <<>>
    /\ Head(waiters) = c
    /\ waiters' = Tail(waiters)
    /\ Enter(c, client[c], hist[c])
    /\ UNCHANGED <<now, client, issued>>

\* the provider answers task c: line 68 assigns, line 69 returns, the lock is
\* released on the way out
ProviderReturn(c, ttl) ==
    /\ pc[c] = "refreshing"
    /\ LET cl == client[c]
           new == AccessToken(cl \o ToString(Len(issued[cl]) + 1), now + ttl)
       IN /\ token' = [token EXCEPT ![cl] = new]
          /\ issued' = [issued EXCEPT ![cl] = Append(@, new)]
          /\ ret' = [ret EXCEPT ![c] = new.token]
    /\ pc' = [pc EXCEPT ![c] = "done"]
    /\ locked' = FALSE
    /\ UNCHANGED <<now, waiters, client, hist>>

\* the provider raises: line 68 propagates, the lock is released on the way out
ProviderFailHolding(c) ==
    /\ pc[c] = "refreshing"
    /\ issued' = [issued EXCEPT ![client[c]] = Append(@, NoToken)]
    /\ pc' = [pc EXCEPT ![c] = "failed"]
    /\ UNCHANGED <<now, token, locked, waiters, client, ret, hist>>
ProviderFail(c) ==
    /\ pc[c] = "refreshing"
    /\ issued' = [issued EXCEPT ![client[c]] = Append(@, NoToken)]
    /\ pc' = [pc EXCEPT ![c] = "failed"]
    /\ locked' = FALSE
    /\ UNCHANGED <<now, token, waiters, client, ret, hist>>

\* the clock advances
Tick ==
    /\ now < MaxTime
    /\ now' = now + 1
    /\ UNCHANGED <<token, locked, waiters, pc, client, ret, issued, hist>>

TokenInit ==
    /\ now = 0
    /\ token = [cl \in Clients |-> NoToken]
    /\ locked = FALSE
    /\ waiters = <<>>
    /\ pc = [c \in Tasks |-> "idle"]
    /\ client = [c \in Tasks |-> None]
    /\ ret = [c \in Tasks |-> None]
    /\ issued = [cl \in Clients |-> <<>>]
    /\ hist = [c \in Tasks |-> NoHist]

\* ------------------------------------------------------------------ dicts
\* `k in d`
Has(d, k) == \E p \in d : p[1] = k
\* `d[k]`, for a key that is there
Get(d, k) == (CHOOSE p \in d : p[1] = k)[2]
\* `d.get(k, default)`
GetOr(d, k, default) == IF Has(d, k) THEN Get(d, k) ELSE default
\* int() of a header value
Int(s) == CASE s = "1" -> 1 [] s = "2" -> 2 [] s = "5" -> 5

\* ------------------------------------------------------- the chain's record
\* one entry of the log: a token lookup, a request or a sleep
Event(op, what, u, p, h, secs) ==
    [op |-> op, what |-> what, url |-> u, params |-> p, headers |-> h, secs |-> secs]
\* _get_token was called
Lookup == Event("TOKEN", "lookup", None, NoDict, NoDict, 0)
\* asyncio.sleep(secs) was called
SleepFixed(secs) == Event("SLEEP", "sleep", None, NoDict, NoDict, 1)
Sleep(secs) == Event("SLEEP", "sleep", None, NoDict, NoDict, secs)

NoOutcome == [kind |-> "none", error |-> None, value |-> NoDict]
Raise(e) == [kind |-> "raise", error |-> e, value |-> NoDict]
Return(v) == [kind |-> "return", error |-> None, value |-> v]

\* --------------------------------------------------------------- the server
Response(status, h, body) == [status |-> status, headers |-> h, body |-> body]

\* what a caller may pass
CallerHeaders == {NoDict,
                  {<<"X-Trace", "1">>},
                  {<<"Authorization", "Bearer caller">>},
                  {<<"Authorization", "Bearer caller">>, <<"X-Trace", "1">>}}
CallerParams == {NoDict, {<<"type", "Notebook">>}}

\* answers to the n-th page request: an error, or a page with each of the
\* two continuation fields there or not
PageResponses(n) ==
    {Response(500, {}, {})} \cup
    {Response(200, {}, {<<"page", ToString(n)>>} \cup u \cup t) :
        u \in {{}, {<<"continuationUri", "U1">>}, {<<"continuationUri", "U2">>}},
        t \in {{}, {<<"continuationToken", "T1">>}, {<<"continuationToken", "T2">>}}}

\* the items of the n-th page of a workspace, by their ids
PageItems(n) ==
    {<<>>, <<"i" \o ToString(n) \o "a">>,
     <<"i" \o ToString(n) \o "a", "i" \o ToString(n) \o "b">>}

\* answers to the n-th page request of get_items: an error, or a list-items
\* page with or without its `value` array and its continuation fields
ItemResponses(n) ==
    {Response(500, {}, {})} \cup
    {Response(200, {}, {<<"page", ToString(n)>>} \cup m \cup v) :
        m \in {{}, {<<"continuationUri", "U1">>},
               {<<"continuationUri", "U1">>, <<"continuationToken", "T1">>}},
        v \in {{}} \cup {{<<"value", items>>} : items \in PageItems(n)}}

\* answers to the submit POST
SubmitResponses ==
    {Response(200, {}, {<<"result", "now">>}), Response(204, {}, {}), Response(404, {}, {})}
    \cup
    {Response(202, o \cup r \cup l, {}) :
        o \in {{}, {<<"x-ms-operation-id", "op1">>}},
        r \in {{}, {<<"Retry-After", "1">>}, {<<"Retry-After", "2">>}},
        l \in {{}, {<<"Location", "L1">>}, {<<"Location", "L2">>}}}

\* responses.py:100-105
Statuses == {"Failed", "NotStarted", "Running", "Succeeded", "Undefined"}

\* the progress a poll answer may report with status st
PercentOf(st) ==
    CASE st \in {"NotStarted", "Undefined"} -> {"0"}
      [] st = "Running" -> {"50", "100"}
      [] st = "Failed" -> {"50"}
      [] st = "Succeeded" -> {"100"}

\* the bodies of a poll answer: every status with its percentComplete,
\* Failed with and without its error payload
OperationStates ==
    UNION {{{<<"status", st>>, <<"percentComplete", pct>>} : pct \in PercentOf(st)} :
             st \in Statuses}
    \cup {{<<"status", "Failed">>, <<"percentComplete", "50">>, <<"error", "boom">>}}

\* answers to a poll GET: an error, or an OperationState with its headers
PollResponses ==
    {Response(500, {}, {})} \cup
    {Response(200, r \cup l, b) :
        r \in {{}, {<<"Retry-After", "2">>}},
        l \in {{}, {<<"Location", "L1">>}, {<<"Location", "L2">>}},
        b \in OperationStates}

\* answers to the final GET
FinalResponses ==
    {Response(404, {}, {}), Response(200, {}, {<<"result", "done">>})}

\* ------------------------------------------------------------------- get
\* fabricclient.py:82
AuthHeaders(t) == {<<"Authorization", "Bearer " \o t>>}

\* fabricclient.py:103 and 171
LocalHeaders(h) == IF h # NoDict THEN h ELSE {}

\* fabricclient.py:105 and 173
NeedsAuth(h) == ~Has(h, "Authorization")

\* fabricclient.py:106 and 174: the headers once the token is there
WithAuthMerged(h, t) == h \cup AuthHeaders(t)
WithAuth(h, t) == AuthHeaders(t)

\* response.raise_for_status() raises
IsError(resp) == resp.status >= 400

\* the open sessions once the `async with aiohttp.ClientSession()` block of
\* lines 108, 176 or 191 is left, by its end, a return or an exception
ClosedUnlessError(sess, resp) == IF IsError(resp) THEN sess ELSE sess - 1
Closed(sess, resp) == sess - 1

\* the request a get() is for
GetWhat == IF mode \in {"get_paged", "get_items"} THEN "page" ELSE "final"

\* lines 103-108 and 171-176, up to the first suspension: the local headers,
\* the token when they carry no Authorization, then the request is sent in a
\* new session. prelog and sess are the log and the open sessions on entry.
BeginRequest(op, what, u, p, hArg, sent, auth, prelog, sess) ==
    LET h == LocalHeaders(hArg)
    IN /\ url' = u
       /\ params' = p
       /\ IF ~NeedsAuth(h)
          THEN /\ headers' = h
               /\ log' = Append(prelog, Event(op, what, u, p, h, 0))
               /\ session' = sess + 1
               /\ hpc' = sent
               /\ UNCHANGED tokenVars
          ELSE /\ Call(Chain, "A")
               /\ IF pc'[Chain] = "done"
                  THEN /\ headers' = WithAuth(h, ret'[Chain])
                       /\ log' = prelog \o <<Lookup, Event(op, what, u, p, headers', 0)>>
                       /\ session' = sess + 1
                       /\ hpc' = sent
                  ELSE /\ headers' = h
                       /\ log' = Append(prelog, Lookup)
                       /\ session' = sess
                       /\ hpc' = auth

\* the provider answers the chain's refresh: _get_token returns, lines 106-108
\* or 174-176 go on and the request is sent
AuthReturn(ttl) ==
    /\ hpc \in {"get_auth", "lro_auth"}
    /\ ProviderReturn(Chain, ttl)
    /\ headers' = WithAuth(headers, ret'[Chain])
    /\ log' = Append(log, IF hpc = "lro_auth"
                          THEN Event("POST", "submit", url, params, headers', 0)
                          ELSE Event("GET", GetWhat, url, params, headers', 0))
    /\ session' = session + 1
    /\ hpc' = IF hpc = "lro_auth" THEN "lro_sent" ELSE "get_sent"
    /\ UNCHANGED <<mode, args, url, params, data, retry_after, location, out,
                   served, yielded, pulls>>

\* the provider raises: the error leaves get / get_long_running_job
AuthFail ==
    /\ hpc \in {"get_auth", "lro_auth"}
    /\ ProviderFail(Chain)
    /\ hpc' = "failed"
    /\ out' = Raise("ProviderError")
    /\ UNCHANGED <<mode, args, url, params, headers, data, retry_after, location,
                   session, log, served, yielded, pulls>>

\* a get_paged that goes on to the next request as soon as a page has come,
\* without being asked for it
GetRespondEager(resp) ==
    /\ hpc = "get_sent"
    /\ served' = Append(served, resp)
    /\ IF IsError(resp)
       THEN /\ hpc' = "failed"
            /\ out' = Raise("ClientResponseError")
            /\ session' = session - 1
            /\ UNCHANGED <<tokenVars, data, yielded, url, params, headers, log>>
       ELSE IF mode = "get_paged"
       THEN /\ data' = resp.body
            /\ yielded' = Append(yielded, resp.body)
            /\ UNCHANGED out
            /\ IF Has(resp.body, "continuationUri") /\ Has(resp.body, "continuationToken")
                    /\ Len(served) + 1 < MaxPages
               THEN BeginRequest("GET", "page", Get(resp.body, "continuationUri"),
                                 {<<"continuationToken", Get(resp.body, "continuationToken")>>},
                                 args.headers, "get_sent", "get_auth", log, session - 1)
               ELSE /\ hpc' = "yield"
                    /\ session' = session - 1
                    /\ UNCHANGED <<tokenVars, url, params, headers, log>>
       ELSE /\ hpc' = "returned"
            /\ out' = Return(resp.body)
            /\ session' = session - 1
            /\ UNCHANGED <<tokenVars, data, yielded, url, params, headers, log>>
    /\ UNCHANGED <<mode, args, retry_after, location, pulls>>

\* the server answers a get(): lines 108-110, then the caller goes on:
\* get_paged yields the page (line 140), get_long_running_job returns (line 202)
GetRespond(resp) ==
    /\ hpc = "get_sent"
    /\ served' = Append(served, resp)
    /\ session' = Closed(session, resp)
    /\ IF IsError(resp)
       THEN /\ hpc' = "failed"
            /\ out' = Raise("ClientResponseError")
            /\ UNCHANGED <<data, yielded>>
       ELSE IF mode = "get_paged"
       THEN /\ hpc' = "yield"
            /\ data' = resp.body
            /\ yielded' = Append(yielded, resp.body)
            /\ UNCHANGED out
       ELSE /\ hpc' = "returned"
            /\ out' = Return(resp.body)
            /\ UNCHANGED <<data, yielded>>
    /\ UNCHANGED <<tokenVars, mode, args, url, params, headers, retry_after,
                   location, log, pulls>>

\* ----------------------------------------------------------------- get_paged
\* fabricclient.py:142
HasNextPageTypo(d) == Has(d, "continuationUrl") /\ Has(d, "continuationToken")
HasNextPageEither(d) == Has(d, "continuationUri") \/ Has(d, "continuationToken")
HasNextPage(d) == Has(d, "continuationUri") /\ Has(d, "continuationToken")

\* fabricclient.py:144: the query of the request for the page after d
NextParams(d, old) == {<<"continuationToken", Get(d, "continuationToken")>>}

\* get_paged runs from its start (lines 136-139) or from its yield (lines
\* 142-146, then 138-139) to its next suspension or to its end. d is the page
\* it last yielded, n the requests made so far, sess the open sessions.
PagedNext(first, d, n, sess) ==
    IF first
    THEN /\ BeginRequest("GET", "page", args.url, args.params, args.headers,
                         "get_sent", "get_auth", log, sess)
         /\ UNCHANGED out
    ELSE IF ~HasNextPage(d)
    THEN /\ hpc' = "done"
         /\ session' = sess
         /\ UNCHANGED <<tokenVars, url, params, headers, out, log>>
    ELSE IF ~(Has(d, "continuationUri") /\ Has(d, "continuationToken"))
    THEN /\ hpc' = "failed"            \* data[...] of lines 143-144 raises
         /\ out' = Raise("KeyError")
         /\ session' = sess
         /\ UNCHANGED <<tokenVars, url, params, headers, log>>
    ELSE /\ n < MaxPages
         /\ BeginRequest("GET", "page", Get(d, "continuationUri"),
                         NextParams(d, params), args.headers,
                         "get_sent", "get_auth", log, sess)
         /\ UNCHANGED out

\* the consumer asks for a page: the generator starts or resumes after its
\* yield and runs to its next suspension or to its end
Pull ==
    /\ mode = "get_paged"
    /\ hpc \in {"start", "yield"}
    /\ pulls' = pulls + 1
    /\ PagedNext(hpc = "start", data, Len(served), session)
    /\ UNCHANGED <<mode, args, data, retry_after, location, served, yielded>>

\* ---------------------------------------------------------------- get_items
\* fabricworkspaceclient.py:66-67, Items(**items_json).value: the array under
\* `value`
ItemsOfFirst(json) ==
    IF Get(json, "value") = <<>> THEN <<>> ELSE <<Head(Get(json, "value"))>>
ItemsOf(json) == Get(json, "value")

\* fabricworkspaceclient.py:61-63: the query of the first request
ItemsParams(item_type) == IF item_type = None THEN {} ELSE {<<"type", item_type>>}

\* the consumer asks get_items for an item: the generator starts (lines
\* 60-65), or resumes after its yield of line 68 with the next item of the
\* page, or, the page being used up, asks get_paged for the next page
PullItem ==
    /\ mode = "get_items"
    /\ hpc \in {"start", "yield_item"}
    /\ IF hpc = "yield_item" /\ buffer # <<>>
       THEN /\ emitted' = Append(emitted, Head(buffer))
            /\ buffer' = Tail(buffer)
            /\ UNCHANGED <<tokenVars, hpc, url, params, headers, session, out,
                           log, pulls>>
       ELSE /\ pulls' = pulls + 1
            /\ PagedNext(hpc = "start", data, Len(served), session)
            /\ UNCHANGED itemVars
    /\ UNCHANGED <<mode, args, data, retry_after, location, served, yielded>>

\* the server answers a page request of get_items: get() returns or raises
\* (fabricclient.py 108-110), get_paged yields the page (140), get_items
\* decodes it (fabricworkspaceclient.py 66) and yields its first item (68);
\* a page without items sends it back to get_paged for the next page
ItemPageRespond(resp) ==
    /\ mode = "get_items"
    /\ hpc = "get_sent"
    /\ served' = Append(served, resp)
    /\ IF IsError(resp)
       THEN /\ hpc' = "failed"
            /\ out' = Raise("ClientResponseError")
            /\ session' = Closed(session, resp)
            /\ UNCHANGED <<tokenVars, url, params, headers, log, data, yielded,
                           pulls, itemVars>>
       ELSE /\ data' = resp.body
            /\ yielded' = Append(yielded, resp.body)
            /\ IF ~Has(resp.body, "value")
               THEN /\ hpc' = "failed"
                    /\ out' = Raise("ValidationError")
                    /\ session' = Closed(session, resp)
                    /\ UNCHANGED <<tokenVars, url, params, headers, log, pulls,
                                   itemVars>>
               ELSE IF ItemsOf(resp.body) # <<>>
               THEN /\ emitted' = Append(emitted, Head(ItemsOf(resp.body)))
                    /\ buffer' = Tail(ItemsOf(resp.body))
                    /\ hpc' = "yield_item"
                    /\ session' = Closed(session, resp)
                    /\ UNCHANGED <<tokenVars, url, params, headers, log, out, pulls>>
               ELSE /\ pulls' = pulls + 1
                    /\ PagedNext(FALSE, resp.body, Len(served) + 1, Closed(session, resp))
                    /\ UNCHANGED itemVars
    /\ UNCHANGED <<mode, args, retry_after, location>>

\* the consumer of get_items takes its time between two items
ItemPause ==
    /\ hpc = "yield_item"
    /\ Tick
    /\ UNCHANGED <<httpVars, itemVars>>

\* the consumer leaves the iteration after a page (a break out of its
\* async for, or the generator is closed): the generator suspended at its
\* yield of line 140 is never resumed
Abandon ==
    /\ mode = "get_paged"
    /\ hpc = "yield"
    /\ hpc' = "abandoned"
    /\ UNCHANGED <<tokenVars, mode, args, url, params, headers, data, retry_after,
                   location, session, out, log, served, yielded, pulls>>

\* ------------------------------------------------------ get_long_running_job
\* fabricclient.py:178
IsImmediateCreated(resp) == resp.status = 201
IsImmediate(resp) == resp.status = 200

\* fabricclient.py:184-186: the headers read from the 202 response
RequiredHeadersNoId == {"Retry-After", "Location"}
RequiredHeaders == {"x-ms-operation-id", "Retry-After", "Location"}

\* fabricclient.py:195
NextLocationKept(resp, old) == old
NextLocation(resp, old) == Get(resp.headers, "Location")

\* responses.py:114-116, on the decoded body
IsCompletedSucceeded(body) == Get(body, "status") = "Succeeded"
IsCompletedAtHundred(body) ==
    Get(body, "status") \in {"Succeeded", "Failed"} \/ Get(body, "percentComplete") = "100"
IsCompleted(body) == Get(body, "status") \in {"Succeeded", "Failed"}

\* the call starts: lines 171-176
Submit ==
    /\ mode = "get_long_running_job"
    /\ hpc = "start"
    /\ BeginRequest("POST", "submit", args.url, args.params, args.headers,
                    "lro_sent", "lro_auth", log, session)
    /\ UNCHANGED <<mode, args, data, retry_after, location, out, served, yielded, pulls>>

\* the server answers the POST: lines 176-190, up to the first sleep
SubmitRespond(resp) ==
    /\ hpc = "lro_sent"
    /\ served' = Append(served, resp)
    /\ session' = Closed(session, resp)
    /\ IF IsError(resp)
       THEN /\ hpc' = "failed"
            /\ out' = Raise("ClientResponseError")
            /\ UNCHANGED <<retry_after, location, log>>
       ELSE IF IsImmediate(resp)
       THEN /\ hpc' = "returned"
            /\ out' = Return(resp.body)
            /\ UNCHANGED <<retry_after, location, log>>
       ELSE IF resp.status # 202
       THEN /\ hpc' = "failed"
            /\ out' = Raise("Exception")
            /\ UNCHANGED <<retry_after, location, log>>
       ELSE IF \E k \in RequiredHeaders : ~Has(resp.headers, k)
       THEN /\ hpc' = "failed"
            /\ out' = Raise("KeyError")
            /\ UNCHANGED <<retry_after, location, log>>
       ELSE /\ retry_after' = Int(Get(resp.headers, "Retry-After"))
            /\ location' = Get(resp.headers, "Location")
            /\ log' = Append(log, Sleep(retry_after'))
            /\ hpc' = "sleep"
            /\ UNCHANGED out
    /\ UNCHANGED <<tokenVars, mode, args, url, params, headers, data, yielded, pulls>>

\* the clock after a sleep of secs seconds (it stands still at MaxTime)
After(secs) == IF now + secs < MaxTime THEN now + secs ELSE MaxTime

\* the sleep is over (line 190): line 191 sends the poll
Wake ==
    /\ hpc = "sleep"
    /\ Cardinality({i \in 1..Len(log) : log[i].what = "poll"}) < MaxPolls
    /\ now' = After(retry_after)
    /\ log' = Append(log, Event("GET", "poll", location, NoDict, headers, 0))
    /\ session' = session + 1
    /\ hpc' = "poll_sent"
    /\ UNCHANGED <<token, locked, waiters, pc, client, ret, issued, hist>>
    /\ UNCHANGED <<mode, args, url, params, headers, data, retry_after,
                   location, out, served, yielded, pulls>>

\* the server answers a poll: lines 191-200, then the next sleep (line 190)
\* or, the operation completed, the final get (line 202)
PollRespond(resp) ==
    /\ hpc = "poll_sent"
    /\ served' = Append(served, resp)
    /\ IF IsError(resp)
       THEN /\ hpc' = "failed"
            /\ out' = Raise("ClientResponseError")
            /\ session' = Closed(session, resp)
            /\ UNCHANGED <<tokenVars, url, params, headers, retry_after, location, log>>
       ELSE IF ~Has(resp.headers, "Location")
       THEN /\ hpc' = "failed"
            /\ out' = Raise("KeyError")
            /\ retry_after' = Int(GetOr(resp.headers, "Retry-After", "5"))
            /\ session' = Closed(session, resp)
            /\ UNCHANGED <<tokenVars, url, params, headers, location, log>>
       ELSE /\ retry_after' = Int(GetOr(resp.headers, "Retry-After", "5"))
            /\ location' = NextLocation(resp, location)
            /\ UNCHANGED out
            /\ IF IsCompleted(resp.body)
               THEN BeginRequest("GET", "final", location', NoDict, NoDict,
                                 "get_sent", "get_auth", log, Closed(session, resp))
               ELSE /\ log' = Append(log, Sleep(retry_after'))
                    /\ session' = Closed(session, resp)
                    /\ hpc' = "sleep"
                    /\ UNCHANGED <<tokenVars, url, params, headers>>
    /\ UNCHANGED <<mode, args, data, yielded, pulls>>

\* the consumer of get_paged takes its time between two pages; requests and
\* provider calls are taken to be short against the clock's seconds, so that
\* the clock moves only here and in the sleeps
Pause ==
    /\ hpc = "yield"
    /\ Tick
    /\ UNCHANGED httpVars

\* one call chain on client A, with what the caller passed; the long-running
\* job is submitted with a query and a header of the caller's own
HttpInit ==
    /\ TokenInit
    /\ mode \in {"get_paged", "get_long_running_job"}
    /\ args \in [url : {"U0"}, params : CallerParams, headers : CallerHeaders]
    /\ mode = "get_long_running_job"
          => (args.params # NoDict /\ <<"X-Trace", "1">> \in args.headers)
    /\ hpc = "start"
    /\ url = None
    /\ params = NoDict
    /\ headers = NoDict
    /\ data = NoDict
    /\ retry_after = 0
    /\ location = None
    /\ session = 0
    /\ out = NoOutcome
    /\ log = <<>>
    /\ served = <<>>
    /\ yielded = <<>>
    /\ pulls = 0
    /\ buffer = <<>>
    /\ emitted = <<>>

HttpNext ==
    \/ Pull /\ UNCHANGED itemVars
    \/ \E ttl \in TTLs : AuthReturn(ttl) /\ UNCHANGED itemVars
    \/ AuthFail /\ UNCHANGED itemVars
    \/ \E resp \in (IF mode = "get_paged" THEN PageResponses(Len(served) + 1)
                                          ELSE FinalResponses) :
          GetRespond(resp) /\ UNCHANGED itemVars
    \/ Submit /\ UNCHANGED itemVars
    \/ \E resp \in SubmitResponses : SubmitRespond(resp) /\ UNCHANGED itemVars
    \/ Wake /\ UNCHANGED itemVars
    \/ \E resp \in PollResponses : PollRespond(resp) /\ UNCHANGED itemVars
    \/ Pause /\ UNCHANGED itemVars
    \/ Abandon /\ UNCHANGED itemVars

HttpSpec == HttpInit /\ [][HttpNext]_vars

\* one get_long_running_job call on client A. The event loop resumes the call
\* when its sleep is over and when an answer has come, and the server and the
\* provider answer every request: a step that stays possible is taken. The
\* server leaves the pace of the polls to the client (no Retry-After on a
\* poll answer).
PacedPollResponses == {resp \in PollResponses : ~Has(resp.headers, "Retry-After")}

LroInit == HttpInit /\ mode = "get_long_running_job"

LroNext ==
    \/ Submit /\ UNCHANGED itemVars
    \/ \E ttl \in TTLs : AuthReturn(ttl) /\ UNCHANGED itemVars
    \/ AuthFail /\ UNCHANGED itemVars
    \/ \E resp \in SubmitResponses : SubmitRespond(resp) /\ UNCHANGED itemVars
    \/ Wake /\ UNCHANGED itemVars
    \/ \E resp \in PacedPollResponses : PollRespond(resp) /\ UNCHANGED itemVars
    \/ \E resp \in FinalResponses : GetRespond(resp) /\ UNCHANGED itemVars

LroFairSpec == LroInit /\ [][LroNext]_vars /\ WF_vars(LroNext)

\* one get_items iteration of a FabricWorkspaceClient over client A:
\* get_items(item_type) calls get_paged(url, params) with no headers
ItemsInit ==
    /\ TokenInit
    /\ mode = "get_items"
    /\ args \in [url : {"U0"}, params : {ItemsParams(t) : t \in {None, "Notebook"}},
                 headers : {NoDict}]
    /\ hpc = "start"
    /\ url = None
    /\ params = NoDict
    /\ headers = NoDict
    /\ data = NoDict
    /\ retry_after = 0
    /\ location = None
    /\ session = 0
    /\ out = NoOutcome
    /\ log = <<>>
    /\ served = <<>>
    /\ yielded = <<>>
    /\ pulls = 0
    /\ buffer = <<>>
    /\ emitted = <<>>

ItemsNext ==
    \/ PullItem
    \/ \E ttl \in TTLs : AuthReturn(ttl) /\ UNCHANGED itemVars
    \/ AuthFail /\ UNCHANGED itemVars
    \/ \E resp \in ItemResponses(Len(served) + 1) : ItemPageRespond(resp)
    \/ ItemPause

ItemsSpec == ItemsInit /\ [][ItemsNext]_vars

\* ------------------------------------------------------------ specifications
\* no call chain: only _get_token tasks
HttpIdle ==
    /\ mode = None
    /\ args = [url |-> None, params |-> NoDict, headers |-> NoDict]
    /\ hpc = "start"
    /\ url = None
    /\ params = NoDict
    /\ headers = NoDict
    /\ data = NoDict
    /\ retry_after = 0
    /\ location = None
    /\ session = 0
    /\ out = NoOutcome
    /\ log = <<>>
    /\ served = <<>>
    /\ yielded = <<>>
    /\ pulls = 0
    /\ buffer = <<>>
    /\ emitted = <<>>

Init == TokenInit /\ HttpIdle

Next ==
    \/ \E c \in Callers, cl \in Clients : Call(c, cl) /\ UNCHANGED <<httpVars, itemVars>>
    \/ \E c \in Callers : Resume(c) /\ UNCHANGED <<httpVars, itemVars>>
    \/ \E c \in Callers, ttl \in TTLs :
          ProviderReturn(c, ttl) /\ UNCHANGED <<httpVars, itemVars>>
    \/ \E c \in Callers : ProviderFail(c) /\ UNCHANGED <<httpVars, itemVars>>
    \/ Tick /\ UNCHANGED <<httpVars, itemVars>>

Spec == Init /\ [][Next]_vars

\* ================================================================== claims
\* the calls on cl that found the cache empty or expired (its expiry instant
\* reached) while g provider calls of cl had been answered: they are
\* concurrent, all issued before the cache was next refreshed
Batch(cl, g) == {c \in Callers : /\ pc[c] # "idle"
                                 /\ client[c] = cl
                                 /\ hist[c].gen = g
                                 /\ hist[c].stale}
\* the same, with "expired" read as the code reads it: expires_on < now
LapsedBatch(cl, g) == {c \in Batch(cl, g) : hist[c].lapsed}

\* the refresh that follows g answered provider calls of cl, if one was
\* answered, succeeded, and its token has not reached its expiry instant
RefreshStands(cl, g) ==
    Len(issued[cl]) > g =>
        /\ issued[cl][g + 1] # NoToken
        /\ now < issued[cl][g + 1].expires_on

\* the calls of B are served by provider call number g + 1 of cl, and no other
ServedByOne(B, cl, g) ==
    /\ ProviderCalls(cl) = g + 1
    /\ Len(issued[cl]) = g + 1
    /\ \A c \in B : ret[c] = issued[cl][g + 1].token

\* C1: N >= 1 concurrent _get_token() calls issued while the cache of their
\* client is empty or expired invoke the provider exactly once, and all return
\* the token of that invocation.
C1_SingleRefresh ==
    \A cl \in Clients, g \in 0..NumCallers :
        LET B == Batch(cl, g)
        IN (B # {} /\ (\A c \in B : pc[c] = "done") /\ RefreshStands(cl, g))
               => ServedByOne(B, cl, g)

\* C1, for the calls the code takes to be on an expired cache (empty, or
\* expires_on < now): exactly one provider call, whose token all return.
C1_SingleRefreshWhenLapsed ==
    \A cl \in Clients, g \in 0..NumCallers :
        LET B == LapsedBatch(cl, g)
        IN (B # {} /\ (\A c \in B : pc[c] = "done") /\ RefreshStands(cl, g))
               => ServedByOne(B, cl, g)

\* three calls on one empty cache, the last two queued behind the first, all
\* returned
C1_Witness ==
    \E cl \in Clients :
        /\ Cardinality(LapsedBatch(cl, 0)) >= 3
        /\ \A c \in LapsedBatch(cl, 0) : pc[c] = "done"
        /\ \E c \in LapsedBatch(cl, 0) : hist[c].waited
        /\ RefreshStands(cl, 0)

\* C2: N concurrent _get_token() calls issued while a valid (non-expired)
\* credential is cached invoke the provider 0 times, leave the cached
\* credential unchanged, and all return its token string.
C2_Reuse ==
    \A c \in Callers :
        (pc[c] # "idle" /\ hist[c].tok # NoToken /\ now < hist[c].tok.expires_on)
            => /\ pc[c] \in {"waiting", "done"}
               /\ ~hist[c].refreshed
               /\ ProviderCalls(client[c]) = hist[c].calls
               /\ token[client[c]] = hist[c].tok
               /\ pc[c] = "done" => ret[c] = hist[c].tok.token

\* two calls on one valid cached credential have returned, one of them after
\* queueing for the lock
C2_Witness ==
    \E c, d \in Callers :
        /\ c # d /\ client[c] = client[d]
        /\ pc[c] = "done" /\ pc[d] = "done"
        /\ hist[c].tok # NoToken /\ hist[d].tok = hist[c].tok
        /\ now < hist[c].tok.expires_on
        /\ hist[d].waited
        /\ ret[c] = ret[d]

\* C3: at most one provider call per client is in flight, and line 67 and the
\* refresh happen under one hold of the lock: a task in its refresh holds the
\* lock, and no task evaluates line 67 while a refresh of its client is in flight.
C3_OneRefreshInFlight ==
    /\ \A cl \in Clients : Cardinality(InFlight(cl)) <= 1
    /\ \A c \in Callers : pc[c] = "refreshing" => locked
    /\ \A c \in Callers : ~hist[c].overlap

\* a task queued while a refresh of its own client was in flight, then ran
\* line 67 and returned
C3_Witness ==
    \E c \in Callers :
        /\ pc[c] = "done" /\ hist[c].waited
        /\ hist[c].calls > hist[c].gen

\* ---------------------------------------------------- reading the chain's log
IsRequest(e) == e.op \in {"GET", "POST"}
IsSleep(e) == e.op = "SLEEP"
\* the requests the chain issued, in order; Requests[i] was answered by served[i]
Requests == SelectSeq(log, IsRequest)
\* the sleeps the chain took, in order
Sleeps == SelectSeq(log, IsSleep)
\* the continuation fields a page body carries
Markers(body) == {p[1] : p \in body} \cap {"continuationUri", "continuationToken"}
\* the value of header k of a response, None when it has none
HeaderOf(resp, k) ==
    IF \E p \in resp.headers : p[1] = k
    THEN (CHOOSE p \in resp.headers : p[1] = k)[2]
    ELSE None
\* a poll answer that reports a terminal status
Terminal(resp) ==
    resp.status = 200 /\ (<<"status", "Succeeded">> \in resp.body
                          \/ <<"status", "Failed">> \in resp.body)
Paged == mode = "get_paged"
Lro == mode = "get_long_running_job"

\* C4: when the server serves n pages of which pages 1..n-1 carry both
\* continuationUri and continuationToken and page n carries neither, get_paged
\* yields exactly those n pages in order, issues exactly n GET requests, and
\* ends when asked for more; it does not end after a page that carries both.
C4_PagesInOrder ==
    Paged =>
        LET n == Len(served)
        IN /\ hpc = "done" => (n >= 1 /\ Cardinality(Markers(served[n].body)) < 2)
           /\ (n >= 1 /\ served[n].status = 200 /\ Markers(served[n].body) = {})
                => /\ \A i \in 1..(n - 1) :
                         /\ served[i].status = 200
                         /\ Cardinality(Markers(served[i].body)) = 2
                   /\ yielded = [i \in 1..n |-> served[i].body]
                   /\ \A i \in 1..n : <<"page", ToString(i)>> \in yielded[i]
                   /\ Len(Requests) = n
                   /\ \A i \in 1..n : Requests[i].op = "GET"
                   /\ hpc \in {"yield", "done", "abandoned"}
                   /\ pulls \in {n, n + 1}
                   /\ pulls = n + 1 => hpc = "done"

\* three pages were served, the third without continuation fields, and the
\* iteration has ended
C4_Witness ==
    /\ Paged /\ hpc = "done"
    /\ Len(served) = 3 /\ Len(yielded) = 3
    /\ Markers(served[3].body) = {}

\* C5: a page carrying only one of the two continuation fields is the last
\* page: get_paged yields it and issues no further request.
C5_OneMarkerIsLast ==
    Paged =>
        \A i \in 1..Len(served) :
            (served[i].status = 200 /\ Cardinality(Markers(served[i].body)) = 1)
                => /\ i = Len(served)
                   /\ Len(Requests) = i
                   /\ Len(yielded) = i /\ yielded[i] = served[i].body
                   /\ hpc \in {"yield", "done", "abandoned"}
                   /\ pulls > i => hpc = "done"

\* the second page carried continuationUri without continuationToken and the
\* iteration has ended
C5_Witness ==
    /\ Paged /\ hpc = "done"
    /\ Len(served) = 2
    /\ Markers(served[2].body) = {"continuationUri"}

\* C6: when the submit POST is answered 200, get_long_running_job returns the
\* body of that answer and issues no poll, no sleep and no final GET.
C6_Immediate ==
    (Lro /\ Len(served) >= 1 /\ served[1].status = 200)
        => /\ out = Return(served[1].body)
           /\ hpc = "returned"
           /\ Len(served) = 1
           /\ Len(Requests) = 1 /\ Requests[1].op = "POST"
           /\ Sleeps = <<>>

\* the submit was answered 200 and the call has returned
C6_Witness ==
    /\ Lro /\ Len(served) = 1 /\ served[1].status = 200
    /\ out.kind = "return"

\* C7: when the submit is answered 202 and the k-th poll (k >= 1) is the first
\* to report a terminal status, get_long_running_job issues exactly k poll
\* GETs and then one final GET, each to the Location of the answer before it,
\* the final one to the Location of the last poll and not to the submit URL,
\* and returns the body of the final GET.
C7_PollThenFinal ==
    Lro =>
        LET R == Requests
            n == Len(R)
        IN /\ \A i \in 2..Len(served) :
                 (R[i].what = "poll" /\ Terminal(served[i])
                      /\ HeaderOf(served[i], "Location") # None)
                     => /\ hpc \notin {"sleep", "poll_sent"}
                        /\ n <= i + 1
                        /\ \A j \in 2..(i - 1) : ~Terminal(served[j])
                        /\ n = i + 1 => R[n].what = "final"
           /\ (out.kind = "return" /\ served[1].status = 202)
                => /\ n = Len(served) /\ n >= 3
                   /\ R[1].op = "POST"
                   /\ \A i \in 2..n :
                         /\ R[i].op = "GET"
                         /\ R[i].url = HeaderOf(served[i - 1], "Location")
                   /\ \A i \in 2..(n - 1) :
                         /\ R[i].what = "poll"
                         /\ Terminal(served[i]) <=> i = n - 1
                   /\ R[n].what = "final"
                   /\ R[n].url # args.url
                   /\ out.value = served[n].body

\* the call returned after two polls whose answers named different Locations
C7_Witness ==
    /\ Lro /\ out.kind = "return"
    /\ Len(served) = 4
    /\ HeaderOf(served[1], "Location") # HeaderOf(served[2], "Location")
    /\ HeaderOf(served[2], "Location") # HeaderOf(served[3], "Location")

\* C8: when a poll reports the terminal status Failed with an error payload,
\* get_long_running_job fails with that payload; it never returns a value
\* for a Failed operation.
C8_FailedNeverReturns ==
    (Lro /\ \E i \in 2..Len(served) :
                /\ Requests[i].what = "poll"
                /\ served[i].status = 200
                /\ <<"status", "Failed">> \in served[i].body
                /\ <<"error", "boom">> \in served[i].body)
        => out.kind # "return"

\* C9: a 202 answer to the submit that lacks x-ms-operation-id, Retry-After or
\* Location makes get_long_running_job fail on the header lookup, before any
\* sleep and before any poll.
C9_MissingHeaderFails ==
    (Lro /\ Len(served) >= 1 /\ served[1].status = 202
         /\ \E k \in {"x-ms-operation-id", "Retry-After", "Location"} :
                HeaderOf(served[1], k) = None)
        => /\ out = Raise("KeyError")
           /\ hpc = "failed"
           /\ Len(served) = 1
           /\ Len(Requests) = 1
           /\ Sleeps = <<>>

\* the 202 answer carried x-ms-operation-id and Retry-After but no Location
C9_Witness ==
    /\ Lro /\ Len(served) = 1 /\ served[1].status = 202
    /\ HeaderOf(served[1], "x-ms-operation-id") # None
    /\ HeaderOf(served[1], "Retry-After") # None
    /\ HeaderOf(served[1], "Location") = None
    /\ out.kind = "raise"

\* the headers the caller passed to the get() or the submit behind log entry e
PassedHeaders(e) == IF e.what = "final" THEN NoDict ELSE args.headers

\* C10: get and the submit of get_long_running_job send the caller's headers
\* unchanged, without a token lookup, when these carry Authorization, and
\* otherwise send every header of the caller plus Authorization: Bearer <token>.
C10_AuthMerged ==
    \A i \in 1..Len(log) :
        IsRequest(log[i]) /\ log[i].what # "poll" =>
            LET h == PassedHeaders(log[i])
                own == IF h = NoDict THEN {} ELSE h
            IN IF \E p \in own : p[1] = "Authorization"
               THEN /\ log[i].headers = h
                    /\ \A j \in 1..i : log[j].op # "TOKEN"
               ELSE \E t \in {issued["A"][g].token : g \in 1..Len(issued["A"])} :
                        log[i].headers = own \cup {<<"Authorization", "Bearer " \o t>>}

\* C11: get_paged is lazy: at every point it has issued at most as many GET
\* requests as the consumer has asked for pages, the request for page N+1 is
\* issued only after page N was yielded and another page was asked for, and
\* a consumer that leaves after page N causes no request for page N+1.
C11_Lazy ==
    Paged =>
        LET n == Len(Requests)
        IN /\ n <= pulls
           /\ n <= Len(yielded) + 1
           /\ \A i \in 1..n : Requests[i].what = "page"
           /\ hpc \in {"yield", "abandoned"}
                => (n = Len(yielded) /\ n = pulls /\ session = 0)

\* the consumer left after the second page, which named a next page
C11_Witness ==
    /\ Paged /\ hpc = "abandoned"
    /\ Len(yielded) = 2
    /\ Cardinality(Markers(yielded[2])) = 2
    /\ Len(Requests) = 2

\* the array under `value` of a page, and the arrays of pages ps in a row
ValueOf(page) == (CHOOSE kv \in page : kv[1] = "value")[2]
RECURSIVE Concat(_)
Concat(ps) ==
    IF ps = <<>> THEN <<>>
    ELSE Concat(SubSeq(ps, 1, Len(ps) - 1)) \o ValueOf(ps[Len(ps)])

\* the pages get_paged has yielded that carry a `value` array: all of them,
\* or all but the last, on which get_items has failed
Decoded ==
    IF yielded # <<>> /\ ~\E kv \in yielded[Len(yielded)] : kv[1] = "value"
    THEN SubSeq(yielded, 1, Len(yielded) - 1)
    ELSE yielded

\* C12: the items get_items has emitted, followed by those of the current
\* page it has still to emit, are the `value` arrays of the pages get_paged
\* yielded, concatenated in page order; when get_items ends, the emitted
\* items are exactly that concatenation.
C12_ItemsArePagesConcatenated ==
    mode = "get_items" =>
        /\ emitted \o buffer = Concat(Decoded)
        /\ yielded = [i \in 1..Len(yielded) |-> served[i].body]
        /\ hpc \in {"done", "failed", "get_sent", "get_auth"} => buffer = <<>>
        /\ Decoded # yielded => out = Raise("ValidationError")

\* three pages of two, no and one item were served and the iteration ended
C12_Witness ==
    /\ mode = "get_items" /\ hpc = "done"
    /\ Len(yielded) = 3
    /\ Len(ValueOf(yielded[1])) = 2
    /\ ValueOf(yielded[2]) = <<>>
    /\ emitted = <<"i1a", "i1b", "i3a">>

\* the tasks whose check of line 67 saw what they found on their call: those
\* that got the lock at once
Checked == {c \in Callers : pc[c] \in {"refreshing", "done", "failed"} /\ ~hist[c].waited}

\* C13: _get_token calls the provider exactly when it finds no cached
\* credential or one with now >= expires_on; at now = expires_on the
\* credential counts as expired and is refreshed.
C13_RefreshIffExpired ==
    \A c \in Checked : hist[c].refreshed <=> hist[c].stale

\* what the code does instead: the provider is called exactly when the cache
\* is empty or now > expires_on
C13_RefreshIffLapsed ==
    \A c \in Checked : hist[c].refreshed <=> hist[c].lapsed

\* the polls answered so far with a well-formed OperationState, by their place
\* among the requests
AnsweredPolls ==
    LET R == Requests
    IN {i \in 2..Len(served) : /\ R[i].what = "poll"
                               /\ served[i].status = 200
                               /\ HeaderOf(served[i], "Location") # None}
StatusOf(resp) == (CHOOSE kv \in resp.body : kv[1] = "status")[2]
PercentCompleteOf(resp) == (CHOOSE kv \in resp.body : kv[1] = "percentComplete")[2]

\* C14: the polling loop of get_long_running_job ends after a poll exactly
\* when that poll reports Succeeded or Failed; after a poll reporting
\* NotStarted, Running or Undefined it sleeps and polls again, whatever
\* percentComplete says, 100 included.
C14_ExitIffTerminal ==
    Lro =>
        LET R == Requests
            n == Len(R)
            sleeps == Len(Sleeps)
            polls == AnsweredPolls
        IN /\ \A i \in polls :
                 IF StatusOf(served[i]) \in {"Succeeded", "Failed"}
                 THEN /\ hpc \notin {"sleep", "poll_sent"}
                      /\ sleeps = i - 1
                      /\ \A j \in (i + 1)..n : R[j].what = "final"
                 ELSE /\ sleeps >= i
                      /\ i = n => hpc = "sleep"
                      /\ i < n => R[i + 1].what = "poll"
           /\ \A j \in 1..n :
                 R[j].what = "final"
                     => (j - 1) \in polls
                            /\ StatusOf(served[j - 1]) \in {"Succeeded", "Failed"}

\* a poll reported Running at 100 percent and the call polled again
C14_Witness ==
    /\ Lro /\ Len(served) >= 3
    /\ 2 \in AnsweredPolls
    /\ StatusOf(served[2]) = "Running" /\ PercentCompleteOf(served[2]) = "100"
    /\ Requests[3].what = "poll"
    /\ 3 \in AnsweredPolls /\ StatusOf(served[3]) = "Failed"
    /\ hpc = "returned"

\* how many of the first k entries of the log are requests
RequestsUpTo(k) == Cardinality({j \in 1..k : IsRequest(log[j])})

\* the seconds the answer to a request tells the client to wait
RetryAfterOf(resp) ==
    IF HeaderOf(resp, "Retry-After") = None THEN 5
    ELSE CASE HeaderOf(resp, "Retry-After") = "1" -> 1
           [] HeaderOf(resp, "Retry-After") = "2" -> 2

\* C15: every poll of get_long_running_job comes right after exactly one
\* sleep, and that sleep lasts what Retry-After of the answer before the poll
\* said (the 202 answer for the first poll, the poll before it afterwards),
\* 5 seconds when a poll answer names none; every sleep follows an answer.
C15_SleepBeforePoll ==
    Lro =>
        /\ \A k \in 1..Len(log) :
              log[k].what = "poll" =>
                  LET i == RequestsUpTo(k)
                  IN /\ i >= 2 /\ k >= 3
                     /\ IsSleep(log[k - 1])
                     /\ IsRequest(log[k - 2])
                     /\ log[k - 2].what \in {"submit", "poll"}
                     /\ log[k - 1].secs = RetryAfterOf(served[i - 1])
        /\ \A k \in 1..Len(log) :
              IsSleep(log[k]) => (k >= 2 /\ IsRequest(log[k - 1])
                                        /\ log[k - 1].what \in {"submit", "poll"})

\* the second poll came after a sleep of 5 seconds, the first poll's answer
\* naming no Retry-After, and the first after a sleep of 2 seconds
C15_Witness ==
    /\ Lro /\ Len(Requests) >= 3 /\ Len(served) >= 2
    /\ Requests[3].what = "poll"
    /\ HeaderOf(served[1], "Retry-After") = "2"
    /\ HeaderOf(served[2], "Retry-After") = None
    /\ Sleeps[1].secs = 2 /\ Sleeps[2].secs = 5

\* the headers of a request other than its Authorization
Plain(h) == {kv \in h : kv # <<>> /\ kv[1] # "Authorization"}

\* the target and the query of each get_paged request: the first as the caller
\* gave them, each later one from the page before it, which carried both
\* continuation fields, with nothing of the query before
NextFromPage ==
    LET R == Requests
    IN /\ \A i \in 2..Len(R) :
             /\ i - 1 <= Len(yielded)
             /\ Markers(yielded[i - 1]) = {"continuationUri", "continuationToken"}
             /\ <<"continuationUri", R[i].url>> \in yielded[i - 1]
             /\ \E t \in {"T1", "T2"} :
                   /\ <<"continuationToken", t>> \in yielded[i - 1]
                   /\ R[i].params = {<<"continuationToken", t>>}
       /\ Len(R) >= 1 => (R[1].url = args.url /\ R[1].params = args.params)

\* C16: after each page that carries both continuation fields, the next
\* request of get_paged goes to that page's continuationUri with the query
\* {continuationToken: that page's token} and nothing of the query before,
\* and every page request carries the caller's headers unchanged.
C16_NextRequestFromPage ==
    Paged =>
        /\ NextFromPage
        /\ \A i \in 1..Len(Requests) :
              \A kv \in args.headers : kv # <<>> => kv \in Requests[i].headers

\* what the code does: the target and the query are as C16 says; get_paged
\* hands the caller's headers to get() the same for every page, where an
\* Authorization of the caller is sent as it is, and without one only the
\* Authorization of the client is sent
C16_NextRequestAsGetSends ==
    Paged =>
        /\ NextFromPage
        /\ \A i \in 1..Len(Requests) :
              /\ (\E kv \in args.headers : kv # <<>> /\ kv[1] = "Authorization")
                    => Requests[i].headers = args.headers
              /\ Plain(Requests[i].headers) = Plain(Requests[1].headers)

\* the submit was answered 202 with the three headers: the call polls
Accepted ==
    /\ Lro /\ Len(served) >= 1 /\ served[1].status = 202
    /\ \A k \in {"x-ms-operation-id", "Retry-After", "Location"} :
          HeaderOf(served[1], k) # None
\* the server has answered a poll with a terminal status or an HTTP error
ServerEnded ==
    \E i \in 2..Len(served) : Terminal(served[i]) \/ served[i].status >= 400
Ended == hpc \in {"returned", "failed"}

\* C17: a get_long_running_job call whose submit was answered 202 returns or
\* fails once the server has answered a poll with a terminal status or an
\* HTTP error; it never returns while every poll so far reported a
\* non-terminal status; and it gives up polling only on such an answer, on an
\* answer without Location or on a failure of the token provider, never on
\* its own count of polls.
C17_EndsIffServerEnds ==
    /\ (Accepted /\ ServerEnded) ~> Ended
    /\ [](Accepted /\ hpc = "returned" => \E i \in AnsweredPolls : Terminal(served[i]))
    /\ [](Accepted /\ hpc = "failed" =>
              \/ out.error = "ProviderError"
              \/ served[Len(served)].status >= 400
              \/ HeaderOf(served[Len(served)], "Location") = None)
    /\ [](Accepted /\ hpc = "sleep"
              /\ Cardinality({i \in 1..Len(log) : log[i].what = "poll"}) < MaxPolls
            => ENABLED Wake)

\* the first poll reported Running, the second Succeeded, and the call has
\* returned the body of the final GET
C17_Witness ==
    /\ Accepted /\ hpc = "returned"
    /\ Len(served) = 4
    /\ StatusOf(served[2]) = "Running"
    /\ StatusOf(served[3]) = "Succeeded"

\* C18: a session is open only while a request of the call is in flight, one
\* at a time: whenever the call has returned, raised, ended its iteration or
\* is between two requests (suspended at a yield, asleep, waiting for a
\* token), also after an answer whose status check failed, no session is open.
C18_SessionsReleased ==
    /\ session \in {0, 1}
    /\ session = 1 <=> hpc \in {"get_sent", "lro_sent", "poll_sent"}
    /\ session = Len(Requests) - Len(served)
    /\ out.kind # "none" => session = 0

\* a poll was answered with an HTTP error and the call has raised
C18_Witness ==
    /\ Lro /\ Len(served) = 3
    /\ Requests[3].what = "poll" /\ served[3].status >= 400
    /\ out = Raise("ClientResponseError")
    /\ session = 0

\* C19: the token state belongs to one client: while a refresh is in flight
\* on one client, a _get_token call on the other client is not held up by
\* it, the other client's cached credential stays what it was, and no call
\* returns a token issued by the provider of another client.
C19_PerClient ==
    /\ \A c \in Callers, d \in Callers :
          (pc[c] = "waiting" /\ pc[d] = "refreshing")
              => \E e \in Callers : /\ client[e] = client[c]
                                    /\ e # c
                                    /\ pc[e] \in {"refreshing", "waiting"}
    /\ \A c \in Callers :
          pc[c] = "done" =>
              \E g \in 1..Len(issued[client[c]]) : ret[c] = issued[client[c]][g].token
    /\ \A cl \in Clients :
          token[cl] = NoToken \/ \E g \in 1..Len(issued[cl]) : token[cl] = issued[cl][g]

\* what the code does: a credential is cached and returned only on the
\* client whose provider issued it
C19_TokensPerClient ==
    /\ \A c \in Callers :
          pc[c] = "done" =>
              \E g \in 1..Len(issued[client[c]]) : ret[c] = issued[client[c]][g].token
    /\ \A cl \in Clients :
          token[cl] = NoToken \/ \E g \in 1..Len(issued[cl]) : token[cl] = issued[cl][g]

\* the last call of the provider of cl failed
FailedLast(cl) == issued[cl] # <<>> /\ issued[cl][Len(issued[cl])] = NoToken

\* C20: when the provider fails during a refresh, that _get_token call fails
\* without a token, the cached credential and the queue are left as they
\* were and the lock is released, so that the first waiting caller can go
\* on; the next call to pass the lock on that client calls the provider again.
C20_FailureReleasesLock ==
    /\ [](\A c \in Callers : pc[c] = "failed" => (ret[c] = None /\ hist[c].refreshed))
    /\ [](locked <=> \E c \in Tasks : pc[c] = "refreshing")
    /\ []((waiters # <<>> /\ ~locked) => ENABLED Resume(Head(waiters)))
    /\ [][\A c \in Callers :
            (pc[c] = "refreshing" /\ pc'[c] = "failed")
                => (token' = token /\ ~locked' /\ waiters' = waiters /\ ret' = ret)]_vars
    /\ [][\A c \in Callers :
            (pc[c] \in {"idle", "waiting"} /\ pc'[c] \in {"refreshing", "done"}
                 /\ FailedLast(client'[c]))
                => pc'[c] = "refreshing"]_vars

\* a refresh of a client with an outdated credential failed, the credential is
\* still cached, and a caller that had queued behind that refresh has called
\* the provider again and returned its token
C20_Witness ==
    \E c \in Callers, e \in Callers :
        /\ pc[c] = "failed" /\ hist[c].tok # NoToken
        /\ client[e] = client[c]
        /\ hist[e].waited /\ hist[e].calls > hist[e].gen
        /\ hist[e].refreshed /\ pc[e] = "done"
        /\ hist[e].tok = hist[c].tok
        /\ ret[e] = token[client[e]].token

====
